---- MODULE Spec2Model ----
(***************************************************************************)
(* A model of utils/ego4d_dataset.py: the curation pipeline of             *)
(* ego4dDataset (load_raw_data, load_take_raw_data, __getitem__) and the   *)
(* geometric helpers it is built from.                                     *)
(*                                                                         *)
(* Numbers.  A coordinate is an exact rational <<n, d>> with d > 0 in      *)
(* lowest terms; float rounding is not modelled.  The absent coordinate    *)
(* (None in an object array, NaN once the array is cast to float) is the   *)
(* pair <<0, 0>>, which no arithmetic result ever equals.                  *)
(* Arrays of joints are functions over 0 .. N-1, as the source indexes     *)
(* them; a point is a tuple of coordinates, a matrix a tuple of rows.      *)
(***************************************************************************)
EXTENDS Integers, Sequences, FiniteSets, TLC

VARIABLES
    phase,      \* which routine the model is in
    split,      \* self.split
    takes_left, \* takes of available_curr_split_uid not yet visited
    quota,      \* annotated frames the remaining takes may still hold
    curr_split_take, \* self.curr_split_take
    take,       \* the take being loaded: its files, annotation, camera poses
    frame_pos,  \* position of the frame loop of load_take_raw_data
    hand_idx,   \* position of the hand loop (index into HAND_ORDER)
    frame_log,  \* what the hand loop did for the hands of the current frame
    db,         \* self.db: the records emitted so far
    expected,   \* keys (take, frame, hand) the enumerated checks let through
    out,        \* what the last __getitem__ returned
    fin, fout   \* input and output of the pure function under study

vars == <<phase, split, takes_left, quota, curr_split_take, take, frame_pos,
          hand_idx, frame_log, db, expected, out, fin, fout>>

----------------------------------------------------------------------------
(* Program constants (ego4dDataset.__init__).                              *)

num_joints == 21
undist_img_H == 512
undist_img_W == 512
valid_kpts_threshold == 10
bbox_padding == 20
pixel_std == 200
image_size_W == 224
image_size_H == 224
heatmap_size_W == 56
heatmap_size_H == 56
sigma == 2

undist_img_dim == <<undist_img_H, undist_img_W>>
image_size == <<image_size_W, image_size_H>>
heatmap_size == <<heatmap_size_W, heatmap_size_H>>
HAND_ORDER == <<"right", "left">>
Joints == 0 .. (num_joints - 1)

----------------------------------------------------------------------------
(* Exact arithmetic standing for numpy's float arithmetic.                 *)

Abs(n) == IF n < 0 THEN -n ELSE n

RECURSIVE GCD(_, _)
GCD(a, b) == IF b = 0 THEN a ELSE GCD(b, a % b)

Norm(n, d) ==
    LET g == GCD(Abs(n), Abs(d))
        s == IF d < 0 THEN -1 ELSE 1
    IN  <<(s * n) \div g, (s * d) \div g>>

None == <<0, 0>>
R(n) == <<n, 1>>
Zero == R(0)
One == R(1)
IsNone(c) == c[2] = 0

LCM(a, b) == (a \div GCD(a, b)) * b
\* Whole numbers take the short way; the results are the same.
RAdd(a, b) ==
    IF a[2] = 1 /\ b[2] = 1 THEN <<a[1] + b[1], 1>>
    ELSE LET l == LCM(a[2], b[2])
         IN  Norm(a[1] * (l \div a[2]) + b[1] * (l \div b[2]), l)
RNeg(a) == <<-a[1], a[2]>>
RSub(a, b) == RAdd(a, RNeg(b))
RMul(a, b) ==
    IF a[2] = 1 /\ b[2] = 1 THEN <<a[1] * b[1], 1>>
    ELSE Norm(a[1] * b[1], a[2] * b[2])
RDiv(a, b) ==
    IF b = <<1, 1>> THEN a ELSE Norm(a[1] * b[2], a[2] * b[1])
RLt(a, b) == a[1] * b[2] < b[1] * a[2]
RLe(a, b) == a[1] * b[2] <= b[1] * a[2]
RGe(a, b) == RLe(b, a)
RMin(a, b) == IF RLt(b, a) THEN b ELSE a
RMax(a, b) == IF RLt(a, b) THEN b ELSE a
\* ndarray.astype(np.int64) and Python's int(): truncation toward zero.
RTrunc(a) == IF a[1] >= 0 THEN a[1] \div a[2] ELSE -((-a[1]) \div a[2])
\* np.clip(a, lo, hi)
RClip(a, lo, hi) == RMin(RMax(a, lo), hi)

\* np.any(kpts == None, axis=1), for one row.
AnyNone(p) == \E c \in DOMAIN p : IsNone(p[c])
NoneRow(n) == [c \in 1 .. n |-> None]
ZeroRow(n) == [c \in 1 .. n |-> Zero]

\* An array computed once: the comparison makes TLC tabulate the function
\* instead of re-evaluating its body at every index it is read at.
Array(f) == IF f = <<>> THEN <<>> ELSE f

RECURSIVE Dot(_, _, _)
Dot(row, v, n) ==
    IF n = 0 THEN Zero ELSE RAdd(Dot(row, v, n - 1), RMul(row[n], v[n]))

\* M @ v for a matrix given as a tuple of rows.
MatVec(M, v) == Array([r \in DOMAIN M |-> Dot(M[r], v, Len(v))])

----------------------------------------------------------------------------
(* The projection helpers.                                                 *)

world_to_cam(kpts, extri) ==
    LET none_idx == [i \in DOMAIN kpts |-> AnyNone(kpts[i])]
        zeroed == [i \in DOMAIN kpts |->
                      IF none_idx[i] THEN ZeroRow(3) ELSE kpts[i]]
        homog == [i \in DOMAIN kpts |-> Append(zeroed[i], One)]
        prod == [i \in DOMAIN kpts |-> MatVec(extri, homog[i])]
    IN  Array([i \in DOMAIN kpts |-> IF none_idx[i] THEN NoneRow(3) ELSE prod[i]])

\* The rows cam_to_img divides: absent rows hold the placeholder -1.
cam_to_img_prod(kpts, intri) ==
    Array([i \in DOMAIN kpts |->
              MatVec(intri, IF AnyNone(kpts[i])
                            THEN [c \in 1 .. 3 |-> R(-1)] ELSE kpts[i])])

\* An array that holds a None is an object array, and
\* "new_kpts / new_kpts[2,:]" on an object array divides Python numbers: it
\* raises ZeroDivisionError as soon as one row, placeholder rows included,
\* has a zero third component.  An array without None is a float array.
cam_to_img_raises(kpts, intri) ==
    LET prod == cam_to_img_prod(kpts, intri)
    IN  /\ \E i \in DOMAIN kpts : AnyNone(kpts[i])
        /\ \E i \in DOMAIN kpts : prod[i][3][1] = 0

ZeroDivisionError == "ZeroDivisionError"
\* inf, -inf or nan: what a float array holds after a division by zero
\* (no number has a negative denominator here).
NonFinite == <<0, -1>>

\* The array returned, or ZeroDivisionError when the division raises.
cam_to_img(kpts, intri) ==
    LET none_idx == [i \in DOMAIN kpts |-> AnyNone(kpts[i])]
        prod == cam_to_img_prod(kpts, intri)
    IN  IF cam_to_img_raises(kpts, intri) THEN ZeroDivisionError
        ELSE Array([i \in DOMAIN kpts |->
                 IF none_idx[i] THEN NoneRow(2)
                 ELSE IF prod[i][3][1] = 0 THEN <<NonFinite, NonFinite>>
                 ELSE <<RDiv(prod[i][1], prod[i][3]),
                        RDiv(prod[i][2], prod[i][3])>>])

\* The height of the raw sensor image: the default of img_shape.
raw_img_H == 1408

\* The rotation taken against the raw sensor height, whatever img_shape is.
aria_original_to_extracted_with_raw_height(kpts, img_shape) ==
    LET none_idx == [i \in DOMAIN kpts |-> AnyNone(kpts[i])]
    IN  Array([i \in DOMAIN kpts |->
            IF none_idx[i] THEN kpts[i]
            ELSE <<RSub(RSub(R(raw_img_H), kpts[i][2]), One), kpts[i][1]>>])

aria_original_to_extracted(kpts, img_shape) ==
    LET H == img_shape[1]
        none_idx == [i \in DOMAIN kpts |-> AnyNone(kpts[i])]
    IN  Array([i \in DOMAIN kpts |->
            IF none_idx[i] THEN kpts[i]
            ELSE <<RSub(RSub(R(H), kpts[i][2]), One), kpts[i][1]>>])

\* trans is (2,3) or (3,3); the product keeps all three rows of the result.
affine_transform(kpts, trans) ==
    LET trans3 == IF Len(trans) = 2
                  THEN Append(trans, <<Zero, Zero, One>>) ELSE trans
        none_idx == [i \in DOMAIN kpts |-> AnyNone(kpts[i])]
        zeroed == [i \in DOMAIN kpts |->
                      IF none_idx[i] THEN ZeroRow(2) ELSE kpts[i]]
        homog == [i \in DOMAIN kpts |-> Append(zeroed[i], One)]
        prod == [i \in DOMAIN kpts |-> MatVec(trans3, homog[i])]
    IN  Array([i \in DOMAIN kpts |-> IF none_idx[i] THEN NoneRow(3) ELSE prod[i]])

----------------------------------------------------------------------------
(* one_hand_kpts_valid_check.  aria_mask is given by the set of its cells  *)
(* <<row, column>> whose value is 0; every other cell is non-zero.         *)

miss_anno_flag(kpts) == [i \in DOMAIN kpts |-> AnyNone(kpts[i])]

\* new_kpts after "new_kpts[miss_anno_flag] = 0"
kpts_after_miss(kpts) ==
    [i \in DOMAIN kpts |-> IF miss_anno_flag(kpts)[i] THEN ZeroRow(2) ELSE kpts[i]]

\* The bounds check with the far edges x = width and y = height let through.
out_bound_flag_inclusive(kpts) ==
    LET new_kpts == kpts_after_miss(kpts)
    IN  [i \in DOMAIN kpts |->
            \/ RLt(new_kpts[i][1], Zero)
            \/ RLt(R(undist_img_dim[2]), new_kpts[i][1])
            \/ RLt(new_kpts[i][2], Zero)
            \/ RLt(R(undist_img_dim[1]), new_kpts[i][2])]

out_bound_flag(kpts) ==
    LET new_kpts == kpts_after_miss(kpts)
    IN  [i \in DOMAIN kpts |->
            LET x_out_bound == RLt(new_kpts[i][1], Zero)
                               \/ RGe(new_kpts[i][1], R(undist_img_dim[2]))
                y_out_bound == RLt(new_kpts[i][2], Zero)
                               \/ RGe(new_kpts[i][2], R(undist_img_dim[1]))
            IN  x_out_bound \/ y_out_bound]

\* new_kpts after "new_kpts[out_bound_flag] = 0"
kpts_after_bound(kpts) ==
    [i \in DOMAIN kpts |->
        IF out_bound_flag(kpts)[i] THEN ZeroRow(2) ELSE kpts_after_miss(kpts)[i]]

\* round(a): the nearest integer, halves going to the even one.
RRound(a) ==
    LET fl == IF a[1] >= 0 THEN a[1] \div a[2] ELSE -((-a[1] + a[2] - 1) \div a[2])
        twice == 2 * (a[1] - fl * a[2])
    IN  IF twice < a[2] THEN fl
        ELSE IF twice > a[2] THEN fl + 1
        ELSE IF fl % 2 = 0 THEN fl ELSE fl + 1

\* The cell read at the nearest pixel instead of the truncated one.
mask_cell_rounded(p) == <<RRound(p[2]), RRound(p[1])>>

\* The cell aria_mask[y.astype(int64), x.astype(int64)] read for a point.
mask_cell(p) == <<RTrunc(p[2]), RTrunc(p[1])>>

invis_flag(kpts, aria_mask) ==
    [i \in DOMAIN kpts |-> mask_cell(kpts_after_bound(kpts)[i]) \in aria_mask]

\* The check with step 5 left out: invalid joints keep the zeroed point.
one_hand_kpts_valid_check_without_none(kpts, aria_mask) ==
    LET invalid_flag == [i \in DOMAIN kpts |->
                            \/ miss_anno_flag(kpts)[i]
                            \/ out_bound_flag(kpts)[i]
                            \/ invis_flag(kpts, aria_mask)[i]]
    IN  [kpts |-> Array([i \in DOMAIN kpts |-> kpts_after_bound(kpts)[i]]),
         valid_flag |-> Array([i \in DOMAIN kpts |-> ~invalid_flag[i]])]

one_hand_kpts_valid_check(kpts, aria_mask) ==
    LET invalid_flag == [i \in DOMAIN kpts |->
                            \/ miss_anno_flag(kpts)[i]
                            \/ out_bound_flag(kpts)[i]
                            \/ invis_flag(kpts, aria_mask)[i]]
    IN  [kpts |-> Array([i \in DOMAIN kpts |->
                      IF invalid_flag[i] THEN NoneRow(2)
                      ELSE kpts_after_bound(kpts)[i]]),
         valid_flag |-> Array([i \in DOMAIN kpts |-> ~invalid_flag[i]])]

----------------------------------------------------------------------------
(* Bounding box and center/scale.                                          *)

\* kpts[flag]: the rows selected by a boolean mask, in index order.
RECURSIVE SelectRows(_, _, _)
SelectRows(kpts, flag, n) ==
    IF n = 0 THEN <<>>
    ELSE IF flag[n - 1] THEN Append(SelectRows(kpts, flag, n - 1), kpts[n - 1])
         ELSE SelectRows(kpts, flag, n - 1)

RECURSIVE ColMin(_, _, _)
ColMin(pts, c, n) ==
    IF n = 1 THEN pts[1][c] ELSE RMin(ColMin(pts, c, n - 1), pts[n][c])

RECURSIVE ColMax(_, _, _)
ColMax(pts, c, n) ==
    IF n = 1 THEN pts[1][c] ELSE RMax(ColMax(pts, c, n - 1), pts[n][c])

\* The padded box without the clipping to the image.
get_bbox_from_kpts_without_clip(kpts, img_shape, padding) ==
    <<RSub(ColMin(kpts, 1, Len(kpts)), R(padding)),
      RSub(ColMin(kpts, 2, Len(kpts)), R(padding)),
      RAdd(ColMax(kpts, 1, Len(kpts)), R(padding)),
      RAdd(ColMax(kpts, 2, Len(kpts)), R(padding))>>

\* kpts: a non-empty sequence of points; the result is <<x1, y1, x2, y2>>.
get_bbox_from_kpts(kpts, img_shape, padding) ==
    LET img_H == img_shape[1]
        img_W == img_shape[2]
        x1 == ColMin(kpts, 1, Len(kpts))
        y1 == ColMin(kpts, 2, Len(kpts))
        x2 == ColMax(kpts, 1, Len(kpts))
        y2 == ColMax(kpts, 2, Len(kpts))
    IN  <<RClip(RSub(x1, R(padding)), Zero, R(img_W - 1)),
          RClip(RSub(y1, R(padding)), Zero, R(img_H - 1)),
          RClip(RAdd(x2, R(padding)), Zero, R(img_W - 1)),
          RClip(RAdd(y2, R(padding)), Zero, R(img_H - 1))>>

\* center and scale from the box as it is, neither side grown to the
\* aspect ratio.
xyxy2cs_before_factor_without_aspect(x1, y1, x2, y2, img_shape, pixel_std_) ==
    [center |-> <<RDiv(RAdd(x1, x2), R(2)), RDiv(RAdd(y1, y2), R(2))>>,
     scale |-> <<RDiv(RSub(x2, x1), R(pixel_std_)),
                 RDiv(RSub(y2, y1), R(pixel_std_))>>]

\* center and scale as they are before "if center[0] != -1".
xyxy2cs_before_factor(x1, y1, x2, y2, img_shape, pixel_std_) ==
    LET aspect_ratio == RDiv(R(img_shape[2]), R(img_shape[1]))
        center == <<RDiv(RAdd(x1, x2), R(2)), RDiv(RAdd(y1, y2), R(2))>>
        w0 == RSub(x2, x1)
        h0 == RSub(y2, y1)
        h == IF RLt(RMul(aspect_ratio, h0), w0)
             THEN RDiv(w0, aspect_ratio) ELSE h0
        w == IF RLt(RMul(aspect_ratio, h0), w0) THEN w0
             ELSE IF RLt(w0, RMul(aspect_ratio, h0))
                  THEN RMul(h0, aspect_ratio) ELSE w0
    IN  [center |-> center,
         scale |-> <<RDiv(w, R(pixel_std_)), RDiv(h, R(pixel_std_))>>]

\* "scale = scale * 1.25"
scale_times_factor(cs) ==
    [center |-> cs.center,
     scale |-> <<RMul(cs.scale[1], <<5, 4>>), RMul(cs.scale[2], <<5, 4>>)>>]

\* "if center[0] != -1: scale = scale * 1.25"
xyxy2cs_factor(cs) == IF cs.center[1] # R(-1) THEN scale_times_factor(cs) ELSE cs

\* xyxy2cs multiplying the scale by 1.25 whatever the center is.
xyxy2cs_always_scaled(x1, y1, x2, y2, img_shape, pixel_std_) ==
    scale_times_factor(
        xyxy2cs_before_factor(x1, y1, x2, y2, img_shape, pixel_std_))

xyxy2cs(x1, y1, x2, y2, img_shape, pixel_std_) ==
    xyxy2cs_factor(xyxy2cs_before_factor(x1, y1, x2, y2, img_shape, pixel_std_))

----------------------------------------------------------------------------
(* The crop transform.  rot is 0 wherever the class calls it, and the      *)
(* sine and cosine are given for that angle only.                          *)

Sin(rot_rad) == CASE rot_rad = 0 -> Zero
Cos(rot_rad) == CASE rot_rad = 0 -> One

get_dir(src_point, rot_rad) ==
    LET sn == Sin(rot_rad)
        cs == Cos(rot_rad)
    IN  <<RSub(RMul(src_point[1], cs), RMul(src_point[2], sn)),
          RAdd(RMul(src_point[1], sn), RMul(src_point[2], cs))>>

get_3rd_point(a, b) ==
    LET direct == <<RSub(a[1], b[1]), RSub(a[2], b[2])>>
    IN  <<RSub(b[1], direct[2]), RAdd(b[2], direct[1])>>

\* cv2.getAffineTransform(src, dst): the (2,3) matrix that sends the three
\* points of src to those of dst, solved by Cramer's rule on the differences
\* to the first point.  For collinear src points the system is singular and
\* the result is not a number: every entry is absent.
getAffineTransform(src, dst) ==
    LET ax == RSub(src[2][1], src[1][1])
        ay == RSub(src[2][2], src[1][2])
        bx == RSub(src[3][1], src[1][1])
        by == RSub(src[3][2], src[1][2])
        D == RSub(RMul(ax, by), RMul(bx, ay))
        Row(c) ==
            LET du == RSub(dst[2][c], dst[1][c])
                dv == RSub(dst[3][c], dst[1][c])
                m1 == RDiv(RSub(RMul(du, by), RMul(dv, ay)), D)
                m2 == RDiv(RSub(RMul(ax, dv), RMul(bx, du)), D)
                m3 == RSub(RSub(dst[1][c], RMul(m1, src[1][1])),
                           RMul(m2, src[1][2]))
            IN  <<m1, m2, m3>>
    IN  IF D = Zero THEN <<NoneRow(3), NoneRow(3)>> ELSE <<Row(1), Row(2)>>

\* get_affine_transform returning the forward map whatever inv is.
get_affine_transform_ignoring_inv(center, scale, rot, output_size, shift, inv) ==
    LET src_w == RMul(scale[1], R(200))
        dst_w == R(output_size[1])
        dst_h == R(output_size[2])
        half == <<1, 2>>
        src1 == <<center[1], RSub(center[2], RMul(src_w, half))>>
        dst0 == <<RMul(dst_w, half), RMul(dst_h, half)>>
        dst1 == <<dst0[1], RSub(dst0[2], RMul(dst_w, half))>>
    IN  getAffineTransform(<<center, src1, get_3rd_point(center, src1)>>,
                           <<dst0, dst1, get_3rd_point(dst0, dst1)>>)

get_affine_transform(center, scale, rot, output_size, shift, inv) ==
    LET scale_tmp == <<RMul(scale[1], R(200)), RMul(scale[2], R(200))>>
        src_w == scale_tmp[1]
        dst_w == R(output_size[1])
        dst_h == R(output_size[2])
        half == <<1, 2>>
        src_dir == get_dir(<<Zero, RMul(src_w, RNeg(half))>>, rot)
        dst_dir == <<Zero, RMul(dst_w, RNeg(half))>>
        src0 == <<RAdd(center[1], RMul(scale_tmp[1], shift[1])),
                  RAdd(center[2], RMul(scale_tmp[2], shift[2]))>>
        src1 == <<RAdd(RAdd(center[1], src_dir[1]), RMul(scale_tmp[1], shift[1])),
                  RAdd(RAdd(center[2], src_dir[2]), RMul(scale_tmp[2], shift[2]))>>
        dst0 == <<RMul(dst_w, half), RMul(dst_h, half)>>
        dst1 == <<RAdd(dst0[1], dst_dir[1]), RAdd(dst0[2], dst_dir[2])>>
        src == <<src0, src1, get_3rd_point(src0, src1)>>
        dst == <<dst0, dst1, get_3rd_point(dst0, dst1)>>
    IN  IF inv # 0 THEN getAffineTransform(dst, src)
        ELSE getAffineTransform(src, dst)

----------------------------------------------------------------------------
(* generate_heatmap.  The Gaussian g is positive everywhere, so a map is   *)
(* given by its written cells: a function from <<row, column>> to the      *)
(* entry <<gy, gx>> of g copied there; cells outside its domain hold 0.    *)

tmp_size == sigma * 3

mu_of(joint) ==
    LET feat_stride == <<RDiv(R(image_size[1]), R(heatmap_size[1])),
                         RDiv(R(image_size[2]), R(heatmap_size[2]))>>
    IN  <<RTrunc(RAdd(RDiv(joint[1], feat_stride[1]), <<1, 2>>)),
          RTrunc(RAdd(RDiv(joint[2], feat_stride[2]), <<1, 2>>))>>

heatmap_ul(joint) == <<mu_of(joint)[1] - tmp_size, mu_of(joint)[2] - tmp_size>>
heatmap_br(joint) ==
    <<mu_of(joint)[1] + tmp_size + 1, mu_of(joint)[2] + tmp_size + 1>>

\* "Check that any part of the gaussian is in-bounds": TRUE when it is not.
heatmap_out_of_grid(joint) ==
    LET ul == heatmap_ul(joint)
        br == heatmap_br(joint)
    IN  \/ ul[1] >= heatmap_size[1]
        \/ ul[2] >= heatmap_size[2]
        \/ br[1] < 0
        \/ br[2] < 0

IMax(a, b) == IF a > b THEN a ELSE b
IMin(a, b) == IF a < b THEN a ELSE b

\* target[joint_id][img_y[0]:img_y[1], img_x[0]:img_x[1]] =
\*     g[g_y[0]:g_y[1], g_x[0]:g_x[1]]
heatmap_splat(joint) ==
    LET ul == heatmap_ul(joint)
        br == heatmap_br(joint)
        g_x == <<IMax(0, -ul[1]), IMin(br[1], heatmap_size[1]) - ul[1]>>
        g_y == <<IMax(0, -ul[2]), IMin(br[2], heatmap_size[2]) - ul[2]>>
        img_x == <<IMax(0, ul[1]), IMin(br[1], heatmap_size[1])>>
        img_y == <<IMax(0, ul[2]), IMin(br[2], heatmap_size[2])>>
    IN  [cell \in (img_y[1] .. (img_y[2] - 1)) \X (img_x[1] .. (img_x[2] - 1)) |->
            <<g_y[1] + (cell[1] - img_y[1]), g_x[1] + (cell[2] - img_x[1])>>]

EmptyMap == [cell \in {} |-> <<0, 0>>]

\* vis_flag holds 1 or 0 per joint; the result is (target, target_weight).
generate_heatmap(joints, vis_flag) ==
    LET written == [j \in DOMAIN joints |->
                       vis_flag[j] > 0 /\ ~heatmap_out_of_grid(joints[j])]
    IN  [target |-> [j \in DOMAIN joints |->
                        IF written[j] THEN heatmap_splat(joints[j])
                        ELSE EmptyMap],
         target_weight |-> [j \in DOMAIN joints |->
                        IF vis_flag[j] > 0 /\ heatmap_out_of_grid(joints[j])
                        THEN 0 ELSE vis_flag[j]]]

----------------------------------------------------------------------------
(* The annotation readers.  A frame's annotation3D dictionary is a         *)
(* function from the positions 0 .. 41 of the keys it holds (hand by hand  *)
(* in HAND_ORDER, wrist first) to <<x, y, z>>.  A reader's result None is  *)
(* the empty tuple.                                                        *)

NoResult == <<>>

\* frame_anno: [kind |-> "none"]        frame_anno is None
\*             [kind |-> "no3d"]        no 'annotation3D' key
\*             [kind |-> "3d", annotation3D |-> the dictionary]
load_frame_hand_3d_kpts(frame_anno) ==
    IF frame_anno.kind \in {"none", "no3d"} THEN NoResult
    ELSE IF DOMAIN frame_anno.annotation3D = {} THEN NoResult
    ELSE Array([k \in 0 .. (2 * num_joints - 1) |->
             IF k \in DOMAIN frame_anno.annotation3D
             THEN frame_anno.annotation3D[k] ELSE NoneRow(3)])

\* cam_pose: a function from the frame indices it holds to
\* [aria |-> whether a key contains 'aria', camera_intrinsics, camera_extrinsics].
\* The result is <<intrinsic, extrinsic>>.
load_frame_cam_pose(frame_idx, cam_pose) ==
    IF frame_idx \notin DOMAIN cam_pose THEN <<NoResult, NoResult>>
    ELSE IF ~cam_pose[frame_idx].aria THEN <<NoResult, NoResult>>
    ELSE <<cam_pose[frame_idx].camera_intrinsics,
           cam_pose[frame_idx].camera_extrinsics>>

----------------------------------------------------------------------------
(* The body of the hand loop of load_take_raw_data.                        *)

\* sum(valid_flag)
RECURSIVE SumFlags(_, _)
SumFlags(flag, n) ==
    IF n = 0 THEN 0 ELSE SumFlags(flag, n - 1) + (IF flag[n - 1] THEN 1 ELSE 0)

\* The threshold taken over joints 1 .. 20 only.
enough_valid_kpts_without_wrist(valid_flag) ==
    SumFlags(valid_flag, num_joints) - (IF valid_flag[0] THEN 1 ELSE 0)
        >= valid_kpts_threshold

\* "if sum(valid_flag) >= self.valid_kpts_threshold"
enough_valid_kpts(valid_flag) ==
    SumFlags(valid_flag, num_joints) >= valid_kpts_threshold

\* one_hand_filtered_3d_kpts_cam with the wrist filtered like any joint.
filtered_3d_kpts_cam_without_restore(one_hand_3d_kpts_cam, valid_flag) ==
    Array([i \in Joints |->
        IF valid_flag[i] THEN one_hand_3d_kpts_cam[i] ELSE NoneRow(3)])

\* one_hand_filtered_3d_kpts_cam as it is stored in the record.
filtered_3d_kpts_cam(one_hand_3d_kpts_cam, valid_flag) ==
    Array([i \in Joints |->
        IF i = 0 THEN one_hand_3d_kpts_cam[0]
        ELSE IF valid_flag[i] THEN one_hand_3d_kpts_cam[i] ELSE NoneRow(3)])

ProjectionCalls ==
    <<"world_to_cam", "cam_to_img", "aria_original_to_extracted",
      "one_hand_kpts_valid_check">>

\* The loop body from the threshold on, given the camera-frame points of the
\* hand and what one_hand_kpts_valid_check returned for it.
hand_checked(one_hand_3d_kpts_cam, checked, curr_intri, take_name, frame_idx, hand_idx_) ==
    LET valid_flag == checked.valid_flag
        one_hand_bbox ==
            get_bbox_from_kpts(SelectRows(checked.kpts, valid_flag, num_joints),
                               undist_img_dim, bbox_padding)
        cs == xyxy2cs(one_hand_bbox[1], one_hand_bbox[2], one_hand_bbox[3],
                      one_hand_bbox[4], undist_img_dim, pixel_std)
    IN  IF ~enough_valid_kpts(valid_flag)
        THEN [calls |-> ProjectionCalls, valid_flag |-> valid_flag,
              records |-> <<>>]
        ELSE [calls |-> ProjectionCalls \o <<"get_bbox_from_kpts", "xyxy2cs">>,
              valid_flag |-> valid_flag,
              records |-> <<[image_path |-> <<take_name, frame_idx>>,
                             center |-> cs.center,
                             scale |-> cs.scale,
                             joints_2d |-> checked.kpts,
                             joints_3d |-> filtered_3d_kpts_cam(
                                               one_hand_3d_kpts_cam, valid_flag),
                             valid_flag |-> valid_flag,
                             take_name |-> take_name,
                             intrinsic |-> curr_intri,
                             frame_idx |-> frame_idx,
                             hand_name |-> HAND_ORDER[hand_idx_ + 1],
                             bbox |-> one_hand_bbox]>>]

\* The loop body after the wrist check, for the world points of one hand:
\* the projections, the validity check, the threshold and the record.
hand_projected(one_hand_3d_kpts_world, curr_intri, curr_extri, aria_mask, take_name, frame_idx, hand_idx_) ==
    LET one_hand_3d_kpts_cam == world_to_cam(one_hand_3d_kpts_world, curr_extri)
        one_hand_2d_kpts_original == cam_to_img(one_hand_3d_kpts_cam, curr_intri)
        one_hand_2d_kpts_extracted ==
            aria_original_to_extracted(one_hand_2d_kpts_original, undist_img_dim)
    IN  hand_checked(one_hand_3d_kpts_cam,
                     one_hand_kpts_valid_check(one_hand_2d_kpts_extracted, aria_mask),
                     curr_intri, take_name, frame_idx, hand_idx_)

\* The loop body with the wrist check left out.
hand_body_without_wrist_check(curr_hand_3d_kpts, curr_intri, curr_extri, aria_mask, take_name, frame_idx, hand_idx_) ==
    hand_projected(Array([i \in Joints |->
                       curr_hand_3d_kpts[num_joints * hand_idx_ + i]]),
                   curr_intri, curr_extri, aria_mask,
                   take_name, frame_idx, hand_idx_)

\* One pass of the loop body for hand hand_idx_ of a frame: the helpers it
\* called, in order, the valid_flag it computed (if any) and the records it
\* appended (none or one).
hand_body(curr_hand_3d_kpts, curr_intri, curr_extri, aria_mask, take_name, frame_idx, hand_idx_) ==
    LET start_idx == num_joints * hand_idx_
        one_hand_3d_kpts_world ==
            Array([i \in Joints |-> curr_hand_3d_kpts[start_idx + i]])
    IN  IF AnyNone(one_hand_3d_kpts_world[0])
        THEN [calls |-> <<>>, valid_flag |-> <<>>, records |-> <<>>]
        ELSE hand_projected(one_hand_3d_kpts_world, curr_intri, curr_extri,
                            aria_mask, take_name, frame_idx, hand_idx_)

----------------------------------------------------------------------------
(* The inputs of a run: what the files of a take may hold.                 *)

MaxTakes == 2
MaxFrames == 2

\* A camera one unit behind the world origin, shifted sideways: depths of
\* the drawn points are never 0.
ExtriA == <<<<One, Zero, Zero, R(10)>>,
            <<Zero, One, Zero, R(-5)>>,
            <<Zero, Zero, One, One>>>>
IntriA == <<<<One, Zero, Zero>>, <<Zero, One, Zero>>, <<Zero, Zero, One>>>>

\* Cells of the occlusion mask that hold 0.
MaskA == {<<0, 0>>, <<50, 300>>}

\* World points by where they land in the extracted view under (ExtriA, IntriA).
PtGood(j) == <<R(190 + 10 * j + (j % 2)), R(205 + 4 * j), One>>
PtEdge == <<R(1013), R(205), One>>    \* lands at y = 511.5
PtOutBound == <<R(2000), R(205), One>>
PtOccluded == <<R(90), R(427), One>>  \* lands on the mask cell <<50, 300>>
PtPartial == <<None, R(205), One>>    \* 'x' is null
PtCorner == <<R(1013), R(4), One>>    \* lands at (511.5, 511.5)

WristKinds == {"absent", "partial", "valid", "occluded", "outbound"}

\* The joints of one hand as annotation3D holds them: the keys of the joints
\* in `missing` are not in the dictionary.  Joints 1 .. k are good; the
\* others are, in turn, missing, out of bounds and occluded.  The joints of
\* a "corner" hand all sit on PtCorner.
HandMissing(w, k) ==
    (IF w = "absent" THEN {0} ELSE {}) \cup {j \in (k + 1) .. 20 : j % 3 = 0}

HandPoint(w, k, e, j) ==
    IF w = "corner" THEN PtCorner
    ELSE IF j = 0 THEN CASE w = "partial" -> PtPartial
                    [] w = "valid" -> PtGood(0)
                    [] w = "occluded" -> PtOccluded
                    [] w = "outbound" -> PtOutBound
    ELSE IF j = 1 /\ e THEN PtEdge
    ELSE IF j <= k THEN PtGood(j)
    ELSE IF j % 3 = 1 THEN PtOutBound ELSE PtOccluded

\* annotation3D of a frame from the two hands' parameters <<w, k, e>>.
Annotation3D(right, left) ==
    LET h(k) == IF k < num_joints THEN right ELSE left
        j(k) == k % num_joints
    IN  [k \in {k \in 0 .. (2 * num_joints - 1) :
                   j(k) \notin HandMissing(h(k)[1], h(k)[2])} |->
            HandPoint(h(k)[1], h(k)[2], h(k)[3], j(k))]

HandPairs ==
    ({<<w, k, FALSE>> : w \in WristKinds,
                        k \in {valid_kpts_threshold - 1, valid_kpts_threshold}}
        \X {<<"absent", 20, FALSE>>})
    \cup ({<<"absent", 20, FALSE>>, <<"valid", 20, FALSE>>}
        \X {<<"occluded", valid_kpts_threshold, TRUE>>})
    \cup {<<<<"corner", 20, FALSE>>, <<"absent", 20, FALSE>>>>}

PoseA == [aria |-> TRUE, camera_intrinsics |-> IntriA, camera_extrinsics |-> ExtriA]
PoseNoAria == [aria |-> FALSE, camera_intrinsics |-> IntriA,
               camera_extrinsics |-> ExtriA]
DefaultAnno == [kind |-> "3d",
                annotation3D |-> Annotation3D(<<"valid", 20, FALSE>>,
                                              <<"valid", 20, FALSE>>)]

\* What one annotated frame may hold: its annotation and its camera pose
\* (pose: "ok", "noaria", or "missing" when cam_pose has no such frame).
FrameOpts ==
    {[anno |-> [kind |-> "3d", annotation3D |-> Annotation3D(hp[1], hp[2])],
      pose |-> "ok"] : hp \in HandPairs}
    \cup {[anno |-> [kind |-> "none"], pose |-> "ok"],
          [anno |-> [kind |-> "no3d"], pose |-> "ok"],
          [anno |-> [kind |-> "3d", annotation3D |-> <<>>], pose |-> "ok"],
          [anno |-> DefaultAnno, pose |-> "noaria"],
          [anno |-> DefaultAnno, pose |-> "missing"]}

\* What a further annotated frame of the run may hold.
FrameOptsMore ==
    {[anno |-> DefaultAnno, pose |-> "ok"],
     [anno |-> DefaultAnno, pose |-> "missing"]}

RECURSIVE SeqsOf(_, _)
SeqsOf(S, n) ==
    IF n = 0 THEN {<<>>}
    ELSE {Append(q, x) : q \in SeqsOf(S, n - 1), x \in S}

\* The annotated frames of a take, in file order; `first` is the set the
\* first of them is drawn from.
FrameSeqs(first, n) ==
    IF n = 0 THEN {<<>>}
    ELSE {<<x>> \o q : x \in first, q \in SeqsOf(FrameOptsMore, n - 1)}

\* cam_pose of a take: the poses of its annotated frames, and `extra` poses
\* of frames that have no annotation (indices after the annotated ones).
CamPose(frames, extra) ==
    [f \in {f \in 1 .. Len(frames) : frames[f].pose # "missing"}
           \cup ((Len(frames) + 1) .. (Len(frames) + extra)) |->
        IF f <= Len(frames) /\ frames[f].pose = "noaria"
        THEN PoseNoAria ELSE PoseA]

NoTake == [anno_exists |-> FALSE, cam_pose_exists |-> FALSE,
           img_dir_exists |-> FALSE, anno |-> <<>>,
           cam_pose |-> <<>>, aria_mask |-> {}]

\* The takes whose files miss: nothing of them is read.
TakesWithMissingFiles ==
    {[NoTake EXCEPT !.cam_pose_exists = TRUE, !.img_dir_exists = TRUE],
     [NoTake EXCEPT !.anno_exists = TRUE, !.img_dir_exists = TRUE],
     [NoTake EXCEPT !.anno_exists = TRUE, !.cam_pose_exists = TRUE]}

\* A take with all its files: anno[f] is the annotation of frame f.
TakeWithFiles(frames, extra) ==
    [anno_exists |-> TRUE, cam_pose_exists |-> TRUE, img_dir_exists |-> TRUE,
     anno |-> [f \in 1 .. Len(frames) |-> frames[f].anno],
     cam_pose |-> CamPose(frames, extra),
     aria_mask |-> MaskA]

\* The takes with at most q annotated frames, by what their files hold.
\* The first annotated frame of a run is drawn from FrameOpts.
TakeContents(q) ==
    (UNION {FrameSeqs(IF q = MaxFrames THEN FrameOpts ELSE FrameOptsMore, n) :
                n \in 0 .. q}) \X {0, 1}
TakeContentsByQuota == Array([q \in 0 .. MaxFrames |-> TakeContents(q)])

----------------------------------------------------------------------------
(* __getitem__.                                                            *)

\* imageio.imread(img_path): the pixels of the file, given by its path.
imread(img_path) == <<"pixels", img_path>>

\* a - b and 1000 * a on float32 values, NaN staying NaN.
NSub(a, b) == IF IsNone(a) \/ IsNone(b) THEN None ELSE RSub(a, b)
NScale(a, f) == IF IsNone(a) THEN None ELSE RMul(a, R(f))

\* __getitem__ from the crop transform on: the key points, the offsets to
\* the wrist and the dictionary returned.
\* cv2.warpAffine and create_rcnn_data are given by their arguments.
getitem_cropped(curr_db, img, trans) ==
    LET curr_2d_kpts == affine_transform(curr_db.joints_2d, trans)
        curr_3d_kpts_cam ==
            Array([i \in Joints |->
                [c \in 1 .. 3 |-> NScale(curr_db.joints_3d[i][c], 1000)]])
        wrist == curr_3d_kpts_cam[0]
        curr_3d_kpts_cam_offset ==
            Array([i \in Joints |->
                IF ~curr_db.valid_flag[i] THEN NoneRow(3)
                ELSE [c \in 1 .. 3 |->
                         NSub(curr_3d_kpts_cam[i][c], curr_3d_kpts_cam[0][c])]])
        bb == IF split # "test"
              THEN get_bbox_from_kpts(
                       SelectRows(curr_2d_kpts, curr_db.valid_flag, num_joints),
                       undist_img_dim, bbox_padding)
              ELSE <<>>
    IN  [path |-> curr_db.image_path,
         original_image |-> img,
         inputs |-> [warpAffine |-> img, M |-> trans],
         point2d |-> curr_2d_kpts,
         point3d |-> curr_3d_kpts_cam_offset,
         bb |-> bb,
         rcnn |-> IF split # "test"
                  THEN <<bb, curr_2d_kpts, curr_3d_kpts_cam_offset,
                         curr_db.valid_flag>>
                  ELSE <<>>,
         intrinsic |-> curr_db.intrinsic,
         valid |-> curr_db.valid_flag,
         trans |-> trans,
         wrist |-> wrist]

\* What __getitem__ returns for the record curr_db (a deep copy of
\* self.db[idx]), img being the decoded file at its image_path.
getitem_data(curr_db, img) ==
    getitem_cropped(curr_db, img,
                    get_affine_transform(curr_db.center, curr_db.scale, 0,
                                         image_size, <<Zero, Zero>>, 0))

----------------------------------------------------------------------------
(* The state machine: load_raw_data visits the takes, load_take_raw_data   *)
(* the frames of a take and the hands of a frame; once the index is built  *)
(* __getitem__ is called with any index, any number of times.              *)

NoLog == [take_name |-> 0, frame_idx |-> 0, intri |-> <<>>, extri |-> <<>>,
          aria_mask |-> {}, hands |-> <<>>]
NoOut == [idx |-> 0, data |-> <<>>]

\* The hands of a frame that pass the frame-level and hand-level checks
\* of load_take_raw_data: the frame has 3D annotation and a pose, the wrist
\* is present in world space and enough joints are valid.
HandsPassing(fo) ==
    LET kpts == load_frame_hand_3d_kpts(fo.anno)
        world(h) == Array([i \in Joints |-> kpts[num_joints * h + i]])
        checked(h) == one_hand_kpts_valid_check(
                          aria_original_to_extracted(
                              cam_to_img(world_to_cam(world(h), ExtriA), IntriA),
                              undist_img_dim),
                          MaskA)
    IN  IF kpts = NoResult \/ fo.pose # "ok" THEN {}
        ELSE {h \in {0, 1} :
                /\ ~AnyNone(world(h)[0])
                /\ SumFlags(checked(h).valid_flag, num_joints)
                       >= valid_kpts_threshold}
FramePasses == Array([fo \in FrameOpts \cup FrameOptsMore |-> HandsPassing(fo)])

PassingKeys(take_name, frames) ==
    {<<take_name, f, HAND_ORDER[h + 1]>> :
        <<f, h>> \in {fh \in (1 .. Len(frames)) \X {0, 1} :
                        fh[2] \in FramePasses[frames[fh[1]]]}}

PipelineInit ==
    /\ phase = "load"
    /\ split \in {"train", "test"}
    /\ takes_left = MaxTakes
    /\ quota = MaxFrames
    /\ curr_split_take = <<>>
    /\ take = NoTake
    /\ frame_pos = 0
    /\ hand_idx = 0
    /\ frame_log = NoLog
    /\ db = <<>>
    /\ expected = [claimed |-> {}, gated |-> {}]
    /\ out = NoOut
    /\ fin = <<>>
    /\ fout = <<>>

\* The take-level condition without the comparison of the two lengths.
take_has_valid_info_without_pose_count(t) == Len(t.anno) > 0

\* "if len(curr_take_anno) > 0 and len(curr_take_anno) <= len(curr_take_cam_pose)"
take_has_valid_info(t) ==
    Len(t.anno) > 0 /\ Len(t.anno) <= Cardinality(DOMAIN t.cam_pose)

\* One pass of the take loop of load_raw_data for a take t, up to the call
\* of load_take_raw_data: the take is skipped or its frames are entered.
\* `passing` are the keys of t that pass the frame and hand checks; they are
\* added to expected.claimed, and to expected.gated when t has at least one
\* annotated frame and no more annotated frames than camera poses.
VisitTake(t, passing) ==
    /\ phase = "load"
    /\ takes_left > 0
    /\ IF ~t.anno_exists \/ ~t.cam_pose_exists \/ ~t.img_dir_exists
       THEN /\ takes_left' = takes_left - 1
            /\ UNCHANGED <<phase, quota, curr_split_take, take, frame_pos,
                           expected>>
       ELSE /\ curr_split_take' = Append(curr_split_take, takes_left)
            /\ quota' = quota - Len(t.anno)
            /\ expected' =
                   [claimed |-> expected.claimed \cup passing,
                    gated |-> expected.gated \cup
                              (IF /\ Len(t.anno) > 0
                                  /\ Len(t.anno) <= Cardinality(DOMAIN t.cam_pose)
                               THEN passing ELSE {})]
            /\ IF take_has_valid_info(t)
               THEN /\ phase' = "take"
                    /\ take' = t
                    /\ frame_pos' = 1
                    /\ UNCHANGED takes_left
               ELSE /\ takes_left' = takes_left - 1
                    /\ UNCHANGED <<phase, take, frame_pos>>
    /\ UNCHANGED <<split, hand_idx, frame_log, db, out, fin, fout>>

BeginTake ==
    \/ \E t \in TakesWithMissingFiles : VisitTake(t, {})
    \/ \E c \in TakeContentsByQuota[quota] :
           VisitTake(TakeWithFiles(c[1], c[2]), PassingKeys(takes_left, c[1]))

\* The head of the frame loop of load_take_raw_data: the frame is skipped,
\* or its hands are entered.
NextFrame ==
    /\ phase = "take"
    /\ frame_pos <= Len(take.anno)
    /\ LET curr_hand_3d_kpts == load_frame_hand_3d_kpts(take.anno[frame_pos])
           pose == load_frame_cam_pose(frame_pos, take.cam_pose)
       IN  IF \/ curr_hand_3d_kpts = NoResult
              \/ pose[1] = NoResult
              \/ pose[2] = NoResult
           THEN /\ frame_pos' = frame_pos + 1
                /\ UNCHANGED <<phase, hand_idx, frame_log>>
           ELSE /\ phase' = "hands"
                /\ hand_idx' = 0
                /\ frame_log' = [take_name |-> takes_left,
                                 frame_idx |-> frame_pos,
                                 intri |-> pose[1], extri |-> pose[2],
                                 aria_mask |-> take.aria_mask,
                                 hands |-> <<>>]
                /\ UNCHANGED frame_pos
    /\ UNCHANGED <<split, takes_left, quota, curr_split_take, take, db,
                   expected, out, fin, fout>>

\* The body of the hand loop for the next hand of the frame; after the last
\* hand the frame loop moves on.
ProcessHand ==
    /\ phase = "hands"
    /\ \E curr_hand_3d_kpts \in {load_frame_hand_3d_kpts(take.anno[frame_pos])} :
       \E done \in {hand_body(curr_hand_3d_kpts, frame_log.intri,
                              frame_log.extri, take.aria_mask, takes_left,
                              frame_pos, hand_idx)} :
           /\ db' = db \o done.records
           /\ frame_log' =
                  [frame_log EXCEPT !.hands =
                      Append(@, [hand_name |-> HAND_ORDER[hand_idx + 1],
                                 world |-> [i \in Joints |->
                                     curr_hand_3d_kpts[num_joints * hand_idx + i]],
                                 calls |-> done.calls,
                                 valid_flag |-> done.valid_flag,
                                 records |-> done.records])]
    /\ IF hand_idx + 1 < Len(HAND_ORDER)
       THEN /\ hand_idx' = hand_idx + 1
            /\ UNCHANGED <<phase, frame_pos>>
       ELSE /\ hand_idx' = 0
            /\ phase' = "take"
            /\ frame_pos' = frame_pos + 1
    /\ UNCHANGED <<split, takes_left, quota, curr_split_take, take, expected,
                   out, fin, fout>>

\* load_take_raw_data returns and load_raw_data moves to the next take.
EndTake ==
    /\ phase = "take"
    /\ frame_pos > Len(take.anno)
    /\ phase' = "load"
    /\ takes_left' = takes_left - 1
    /\ take' = NoTake
    /\ frame_pos' = 0
    /\ UNCHANGED <<split, quota, curr_split_take, hand_idx, frame_log, db,
                   expected, out, fin, fout>>

\* load_raw_data returns gt_db and __init__ completes.
FinishLoad ==
    /\ phase = "load"
    /\ takes_left = 0
    /\ phase' = "ready"
    /\ UNCHANGED <<split, takes_left, quota, curr_split_take, take, frame_pos,
                   hand_idx, frame_log, db, expected, out, fin, fout>>

\* copy.deepcopy(self.db[idx])
deepcopy(rec) == rec

\* __getitem__ working on self.db[idx] itself: the scaling to millimetres
\* lands in the stored record.
GetItem_without_copy(idx) ==
    /\ phase = "ready"
    /\ idx \in 1 .. Len(db)
    /\ out' = [idx |-> idx,
               data |-> getitem_data(db[idx], imread(db[idx].image_path))]
    /\ db' = [db EXCEPT ![idx].joints_3d =
                  [i \in Joints |-> [c \in 1 .. 3 |-> NScale(@[i][c], 1000)]]]
    /\ UNCHANGED <<phase, split, takes_left, quota, curr_split_take, take,
                   frame_pos, hand_idx, frame_log, expected, fin, fout>>

GetItem(idx) ==
    /\ phase = "ready"
    /\ idx \in 1 .. Len(db)
    /\ out' = [idx |-> idx,
               data |-> getitem_data(deepcopy(db[idx]),
                                     imread(db[idx].image_path))]
    /\ UNCHANGED <<phase, split, takes_left, quota, curr_split_take, take,
                   frame_pos, hand_idx, frame_log, db, expected, fin, fout>>

Next ==
    \/ BeginTake
    \/ NextFrame
    \/ ProcessHand
    \/ EndTake
    \/ FinishLoad
    \/ \E idx \in 1 .. MaxTakes * MaxFrames * 2 : GetItem(idx)

Spec == PipelineInit /\ [][Next]_vars

----------------------------------------------------------------------------
(* The helpers called on their own: one call of one helper with arguments  *)
(* drawn from small sets.  fin is <<helper, kpts, second argument, third   *)
(* argument>> and fout what the call returned.                             *)

MaxRows == 2

\* Arrays of 1 .. MaxRows rows drawn from Pts, indexed from 0.
ArraysOf(Pts) == UNION {[0 .. (n - 1) -> Pts] : n \in 1 .. MaxRows}
\* 21 joints: p at the indices i with i % 3 = s, q elsewhere.
Pattern(p, q, s) == Array([i \in Joints |-> IF i % 3 = s THEN p ELSE q])

Pts3 == {NoneRow(3), <<None, R(2), R(3)>>, <<R(1), R(2), R(4)>>,
         <<R(3), R(-2), Zero>>, <<R(2), Zero, R(2)>>}
Pts2 == {NoneRow(2), <<None, R(5)>>, <<R(10), R(20)>>, <<<<3, 2>>, Zero>>,
         <<R(-4), R(600)>>}

ExtriB == <<<<Zero, R(-1), Zero, R(2)>>,
            <<One, Zero, Zero, Zero>>,
            <<Zero, Zero, One, R(-4)>>>>
IntriB == <<<<R(2), Zero, R(3)>>, <<Zero, R(2), One>>, <<Zero, Zero, One>>>>
\* An intrinsic whose third row sends the placeholder (-1, -1, -1) to 0.
IntriC == <<<<One, Zero, Zero>>, <<Zero, One, Zero>>, <<One, Zero, R(-1)>>>>
TransA == <<<<<<1, 2>>, Zero, R(-3)>>, <<Zero, <<1, 2>>, R(7)>>>>
TransB == <<<<R(2), One, Zero>>, <<R(-1), R(2), R(5)>>, <<Zero, Zero, One>>>>
ShapeB == <<480, 640>>

ProjectionInputs ==
    ({"world_to_cam"} \X ArraysOf(Pts3) \X {ExtriA, ExtriB} \X {<<>>})
    \cup ({"cam_to_img"} \X ArraysOf(Pts3) \X {IntriA, IntriB, IntriC} \X {<<>>})
    \cup ({"aria_original_to_extracted"} \X ArraysOf(Pts2)
              \X {undist_img_dim, ShapeB} \X {<<>>})
    \cup ({"affine_transform"} \X ArraysOf(Pts2) \X {TransA, TransB} \X {<<>>})

\* Points for one_hand_kpts_valid_check: absent, inside, on and beyond the
\* edges, and on the cells of MaskA.
PtsCheck == {NoneRow(2), <<None, R(100)>>, <<None, R(600)>>, <<R(100), R(200)>>,
             <<<<3007, 10>>, <<509, 10>>>>, <<Zero, Zero>>,
             <<R(512), R(100)>>, <<R(100), R(512)>>, <<<<-1, 2>>, R(100)>>,
             <<<<1023, 2>>, <<1023, 2>>>>, <<R(300), R(50)>>}
ValidCheckInputs ==
    {<<"one_hand_kpts_valid_check", Pattern(p, q, s), m, <<>>>> :
        p \in PtsCheck, q \in PtsCheck, s \in 0 .. 2, m \in {MaskA, {}}}

\* Points inside an image of shape sh, its far edges included.
PtsInside(sh) ==
    {<<Zero, Zero>>, <<R(10), R(30)>>, <<R(19), R(21)>>, <<R(300), R(200)>>,
     <<R(sh[2] - 1), R(sh[1] - 1)>>, <<R(sh[2] - 15), R(25)>>,
     <<<<2 * sh[2] - 1, 2>>, R(100)>>, <<R(100), <<2 * sh[1] - 1, 2>>>>}
PointLists(Pts) == UNION {[1 .. n -> Pts] : n \in 1 .. MaxRows}
BBoxInputs ==
    UNION {{"get_bbox_from_kpts"} \X PointLists(PtsInside(sh)) \X {sh}
               \X {bbox_padding} : sh \in {undist_img_dim, ShapeB}}

\* Boxes <<x1, y1, x2, y2>> with x1 <= x2 and y1 <= y2.
Boxes ==
    {<<R(b[1]), R(b[2]), R(b[3]), R(b[4])>> :
        b \in {b \in {-22, -2, 0, 20, 100, 120} \X {0, 20, 90, 100}
                      \X {-22, -2, 0, 20, 100, 120} \X {0, 20, 90, 100} :
                  b[1] <= b[3] /\ b[2] <= b[4]}}
Xyxy2csInputs ==
    {"xyxy2cs"} \X Boxes \X {undist_img_dim, ShapeB} \X {pixel_std}

\* Joints in the 224 x 224 crop and around it.
PtsHeat == {<<R(100), R(100)>>, <<Zero, Zero>>, <<R(-24), R(100)>>,
            <<R(-32), R(100)>>, <<R(-36), R(100)>>, <<R(100), R(-32)>>,
            <<R(244), R(100)>>, <<R(248), R(100)>>}
HeatmapInputs ==
    {<<"generate_heatmap", Pattern(p, q, s), v, <<>>>> :
        p \in PtsHeat, q \in PtsHeat, s \in 0 .. 2,
        v \in {[j \in Joints |-> 1], [j \in Joints |-> j % 2]}}

\* One hand seen by a camera at the world origin looking down the z axis.
\* Wrists: on the optical axis; landing on the mask cell <<0, 0>>; landing
\* left of the extracted image.  Joints after k are absent.
ExtriIdentity == <<<<One, Zero, Zero, Zero>>,
                   <<Zero, One, Zero, Zero>>,
                   <<Zero, Zero, One, Zero>>>>
IdentityWrists == {<<Zero, Zero, R(5)>>, <<Zero, R(2555), R(5)>>,
                   <<Zero, R(5000), R(5)>>}
IdentityHand(w, k) ==
    Array([i \in Joints |->
        IF i = 0 THEN w
        ELSE IF i = 1 THEN <<R(3), R(4), R(2)>>
        ELSE IF i <= k THEN <<R(5 * (10 + i)), R(5 * (20 + 2 * i)), R(5)>>
        ELSE NoneRow(3)])
HandProjectedInputs ==
    {<<"hand_projected", IdentityHand(w, k), <<IntriA, ExtriIdentity>>, m>> :
        w \in IdentityWrists,
        k \in {valid_kpts_threshold - 2, num_joints - 1},
        m \in {MaskA, {}}}

\* Crops for the round trip through get_affine_transform at rotation 0:
\* <<center, scale>> with positive scales, square or not, an output size
\* and a point.
Centers == {<<Zero, Zero>>, <<R(256), <<511, 2>>>>, <<R(-1), R(100)>>,
            <<<<201, 2>>, R(300)>>}
Scales == {<<One, One>>, <<<<8, 5>>, <<8, 5>>>>, <<One, R(2)>>,
           <<<<1, 200>>, R(3)>>}
OutputSizes == {image_size, <<192, 256>>, heatmap_size}
PtsCrop == {<<Zero, Zero>>, <<R(100), R(200)>>, <<R(511), <<1, 2>>>>,
            <<R(-7), <<3, 2>>>>}
RoundTripInputs ==
    {"affine_round_trip"} \X (Centers \X Scales) \X OutputSizes \X PtsCrop

HelperInit ==
    /\ phase = "call"
    /\ fin \in ProjectionInputs \cup ValidCheckInputs \cup BBoxInputs
               \cup Xyxy2csInputs \cup HeatmapInputs
               \cup HandProjectedInputs \cup RoundTripInputs
    /\ fout = <<>>
    /\ split = "train"
    /\ takes_left = 0
    /\ quota = 0
    /\ curr_split_take = <<>>
    /\ take = NoTake
    /\ frame_pos = 0
    /\ hand_idx = 0
    /\ frame_log = NoLog
    /\ db = <<>>
    /\ expected = [claimed |-> {}, gated |-> {}]
    /\ out = NoOut

\* The call of helper fn returns result.
Returns(fn, result) ==
    /\ phase = "call"
    /\ fin[1] = fn
    /\ phase' = "returned"
    /\ fout' = result
    /\ UNCHANGED <<split, takes_left, quota, curr_split_take, take, frame_pos,
                   hand_idx, frame_log, db, expected, out, fin>>

Call_world_to_cam == Returns("world_to_cam", world_to_cam(fin[2], fin[3]))
Call_cam_to_img == Returns("cam_to_img", cam_to_img(fin[2], fin[3]))
Call_aria_original_to_extracted ==
    Returns("aria_original_to_extracted",
            aria_original_to_extracted(fin[2], fin[3]))
Call_affine_transform ==
    Returns("affine_transform", affine_transform(fin[2], fin[3]))
Call_one_hand_kpts_valid_check ==
    Returns("one_hand_kpts_valid_check",
            one_hand_kpts_valid_check(fin[2], fin[3]))
Call_get_bbox_from_kpts ==
    Returns("get_bbox_from_kpts", get_bbox_from_kpts(fin[2], fin[3], fin[4]))
Call_xyxy2cs ==
    Returns("xyxy2cs",
            xyxy2cs(fin[2][1], fin[2][2], fin[2][3], fin[2][4], fin[3], fin[4]))
Call_generate_heatmap ==
    Returns("generate_heatmap", generate_heatmap(fin[2], fin[3]))

\* The projections, the check and the record of the hand loop for one hand
\* of take 1, frame 1.
Call_hand_projected ==
    Returns("hand_projected",
            hand_projected(fin[2], fin[3][1], fin[3][2], fin[4], 1, 1, 0))

\* The first two columns of the rows of an array.
xy(kpts) == [i \in DOMAIN kpts |-> <<kpts[i][1], kpts[i][2]>>]

\* get_affine_transform called for a crop without and with inv, and
\* affine_transform applied to the center, to a point, and with the inverse
\* map to the columns (x, y) of the transformed point.
affine_round_trip(center, scale, output_size, point) ==
    LET trans == get_affine_transform(center, scale, 0, output_size,
                                      <<Zero, Zero>>, 0)
        trans_inv == get_affine_transform(center, scale, 0, output_size,
                                          <<Zero, Zero>>, 1)
        there == affine_transform([i \in {0} |-> point], trans)
    IN  [trans |-> trans,
         trans_inv |-> trans_inv,
         center |-> affine_transform([i \in {0} |-> center], trans),
         there |-> there,
         back |-> affine_transform(xy(there), trans_inv)]

Call_affine_round_trip ==
    Returns("affine_round_trip",
            affine_round_trip(fin[2][1], fin[2][2], fin[3], fin[4]))

HelperNext ==
    \/ Call_world_to_cam
    \/ Call_cam_to_img
    \/ Call_aria_original_to_extracted
    \/ Call_affine_transform
    \/ Call_one_hand_kpts_valid_check
    \/ Call_get_bbox_from_kpts
    \/ Call_xyxy2cs
    \/ Call_generate_heatmap
    \/ Call_hand_projected
    \/ Call_affine_round_trip

SpecHelpers == HelperInit /\ [][HelperNext]_vars

----------------------------------------------------------------------------
(* Properties of the index build and of the accesses.                      *)

\* The hands of the current frame that the hand loop has gone through.
LoggedHands == {frame_log.hands[k] : k \in 1 .. Len(frame_log.hands)}
CountValid(flag, S) == Cardinality({i \in S : flag[i]})
RecordKey(rec) == <<rec.take_name, rec.frame_idx, rec.hand_name>>
DbKeys == {RecordKey(db[k]) : k \in 1 .. Len(db)}

\* C1, as stated: a hand whose wrist is present in world space (its frame
\* having a camera pose) emits a record if and only if at least
\* valid_kpts_threshold of its joints 1..20 are valid, the wrist not counting.
C1_JointZeroExempt ==
    \A e \in LoggedHands :
        ~AnyNone(e.world[0]) =>
            (e.records # <<>>
                <=> CountValid(e.valid_flag, 1 .. 20) >= valid_kpts_threshold)

\* C1, amended: such a hand emits a record if and only if at least
\* valid_kpts_threshold of its 21 joints, the wrist included, are valid.
C1_ThresholdOverAllJoints ==
    \A e \in LoggedHands :
        ~AnyNone(e.world[0]) =>
            (e.records # <<>>
                <=> CountValid(e.valid_flag, Joints) >= valid_kpts_threshold)

\* A hand accepted with a valid wrist and exactly 9 valid joints among 1..20.
C1_Witness ==
    \E e \in LoggedHands :
        /\ ~AnyNone(e.world[0])
        /\ e.valid_flag[0]
        /\ CountValid(e.valid_flag, 1 .. 20) = valid_kpts_threshold - 1
        /\ e.records # <<>>

\* C2: a hand whose wrist has an absent coordinate in world space emits no
\* record and none of the projection helpers is run for it; every hand of
\* the frame goes through the loop, and a hand whose wrist is present is
\* projected whatever the other hand's wrist is.
C2_WristAbsentDiscardedFirst ==
    /\ \A e \in LoggedHands :
           IF AnyNone(e.world[0])
           THEN e.calls = <<>> /\ e.records = <<>>
           ELSE \A k \in 1 .. Len(ProjectionCalls) :
                    e.calls[k] = ProjectionCalls[k]
    /\ phase = "hands" => Len(frame_log.hands) = hand_idx
    /\ phase # "hands" => Len(frame_log.hands) \in {0, Len(HAND_ORDER)}

\* A frame whose right wrist is absent and whose left hand gave a record.
C2_Witness ==
    /\ Len(frame_log.hands) = 2
    /\ AnyNone(frame_log.hands[1].world[0])
    /\ frame_log.hands[1].calls = <<>>
    /\ frame_log.hands[2].records # <<>>

\* C3: every emitted record's joints_3d[0] is present and is the wrist that
\* world_to_cam produced, whatever valid_flag[0] is; __getitem__ returns
\* 'wrist' = 1000 * joints_3d[0], point3d[i] = 1000 * (joints_3d[i] -
\* joints_3d[0]) for the joints with valid_flag[i] and an absent point3d[i]
\* for the others (arithmetic is exact here).
C3_WristPreserved ==
    /\ \A k \in 1 .. Len(db) : ~AnyNone(db[k].joints_3d[0])
    /\ \A e \in LoggedHands :
           e.records # <<>> =>
               \A c \in 1 .. 3 :
                   e.records[1].joints_3d[0][c]
                       = world_to_cam(e.world, frame_log.extri)[0][c]
    /\ out.idx # 0 =>
           LET rec == db[out.idx]
           IN  /\ \A c \in 1 .. 3 :
                      out.data.wrist[c] = RMul(R(1000), rec.joints_3d[0][c])
               /\ \A i \in Joints : \A c \in 1 .. 3 :
                      out.data.point3d[i][c] =
                          IF rec.valid_flag[i]
                          THEN RMul(R(1000), RSub(rec.joints_3d[i][c],
                                                  rec.joints_3d[0][c]))
                          ELSE None

\* An access to a record whose wrist is flagged invalid.
C3_Witness ==
    /\ out.idx # 0
    /\ ~db[out.idx].valid_flag[0]
    /\ \E i \in Joints : db[out.idx].valid_flag[i]
    /\ ~AnyNone(out.data.wrist)

\* C6, as stated: once the index is built it holds a record for (take,
\* frame, hand) if and only if the take's three files exist, the frame has
\* 3D annotation and a pose, the wrist is present and enough joints are valid.
C6_OnlyEnumeratedChecks ==
    phase = "ready" => DbKeys = expected.claimed /\ Len(db) = Cardinality(DbKeys)

\* C6, amended: it holds a record for (take, frame, hand) if and only if, in
\* addition, the take's annotation file has at least one frame and no more
\* frames than its camera-pose file; a take that fails this, like a take
\* with missing files, contributes nothing and the other takes still build.
C6_ChecksAndTakeGate ==
    phase = "ready" => DbKeys = expected.gated /\ Len(db) = Cardinality(DbKeys)

\* An index built after a take was dropped though one of its hands passes
\* every frame and hand check.
C6_Witness ==
    /\ phase = "ready"
    /\ expected.claimed # expected.gated
    /\ DbKeys = expected.gated

----------------------------------------------------------------------------
(* Properties of the helpers called on their own.                          *)

Returned(fn) == phase = "returned" /\ fin[1] = fn

\* The three checks stated on the input point p itself.
InputMissing(p) == AnyNone(p)
InputOutOfBounds(p) ==
    /\ ~AnyNone(p)
    /\ \/ RLt(p[1], Zero)
       \/ RLe(R(undist_img_W), p[1])
       \/ RLt(p[2], Zero)
       \/ RLe(R(undist_img_H), p[2])
InputOccluded(p, aria_mask) ==
    /\ ~AnyNone(p)
    /\ ~InputOutOfBounds(p)
    /\ <<p[2][1] \div p[2][2], p[1][1] \div p[1][2]>> \in aria_mask

\* C4: with missing = some coordinate absent, out of bounds = x outside
\* [0, width) or y outside [0, height), occluded = the mask cell under the
\* point is 0, one_hand_kpts_valid_check returns valid_flag[i] = NOT(missing
\* OR out of bounds OR occluded) for each of the 21 joints; the cleaned
\* point i is absent exactly when valid_flag[i] is false and a valid
\* joint's coordinates are returned unchanged.
C4_ValidFlagIsConjunctionOfChecks ==
    Returned("one_hand_kpts_valid_check") =>
        \A i \in Joints :
            LET p == fin[2][i]
                valid == ~(InputMissing(p) \/ InputOutOfBounds(p)
                           \/ InputOccluded(p, fin[3]))
            IN  /\ fout.valid_flag[i] = valid
                /\ AnyNone(fout.kpts[i]) <=> ~valid
                /\ ~valid => fout.kpts[i] = NoneRow(2)
                /\ valid => fout.kpts[i] = p

\* A call whose input has a valid joint and a present, in-bounds joint that
\* the mask occludes.
C4_Witness ==
    /\ Returned("one_hand_kpts_valid_check")
    /\ \E i \in Joints : fout.valid_flag[i] /\ fout.kpts[i] = fin[2][i]
    /\ \E i \in Joints : InputOccluded(fin[2][i], fin[3]) /\ ~fout.valid_flag[i]

\* The four helpers that map joints to joints, by name.
ProjectionFns == {"world_to_cam", "cam_to_img", "aria_original_to_extracted",
                  "affine_transform"}
ProjectionRaises(fn, kpts, arg) ==
    fn = "cam_to_img" /\ cam_to_img_raises(kpts, arg)
Projection(fn, kpts, arg) ==
    CASE fn = "world_to_cam" -> world_to_cam(kpts, arg)
      [] fn = "cam_to_img" -> cam_to_img(kpts, arg)
      [] fn = "aria_original_to_extracted" -> aria_original_to_extracted(kpts, arg)
      [] fn = "affine_transform" -> affine_transform(kpts, arg)
\* kpts with joint i present.
WithPresent(kpts, i) ==
    [kpts EXCEPT ![i] = [c \in DOMAIN kpts[i] |-> One]]

\* C5, as stated: for each of world_to_cam, cam_to_img,
\* aria_original_to_extracted and affine_transform and every matrix, the
\* call returns an array in which every joint that has an absent input
\* coordinate is absent, and the output of every other joint is what it is
\* when that joint is present instead.
C5_AbsencePropagates ==
    (phase = "returned" /\ fin[1] \in ProjectionFns) =>
        /\ ~ProjectionRaises(fin[1], fin[2], fin[3])
        /\ \A i \in DOMAIN fin[2] :
               AnyNone(fin[2][i]) =>
                   /\ AnyNone(fout[i])
                   /\ ~ProjectionRaises(fin[1], WithPresent(fin[2], i), fin[3])
                   /\ \A j \in DOMAIN fin[2] \ {i} :
                          fout[j] = Projection(fin[1], WithPresent(fin[2], i),
                                               fin[3])[j]

\* The padded min/max of the points, clipped to the last pixel.
Clipped(v, lo, hi) == IF RLt(v, lo) THEN lo ELSE IF RLt(hi, v) THEN hi ELSE v
Least(pts, c) ==
    CHOOSE m \in {pts[k][c] : k \in DOMAIN pts} :
        \A k \in DOMAIN pts : RLe(m, pts[k][c])
Greatest(pts, c) ==
    CHOOSE m \in {pts[k][c] : k \in DOMAIN pts} :
        \A k \in DOMAIN pts : RLe(pts[k][c], m)
PaddedClippedBox(pts, img_shape, padding) ==
    <<Clipped(RSub(Least(pts, 1), R(padding)), Zero, R(img_shape[2] - 1)),
      Clipped(RSub(Least(pts, 2), R(padding)), Zero, R(img_shape[1] - 1)),
      Clipped(RAdd(Greatest(pts, 1), R(padding)), Zero, R(img_shape[2] - 1)),
      Clipped(RAdd(Greatest(pts, 2), R(padding)), Zero, R(img_shape[1] - 1))>>
BoxInImage(box, img_shape) ==
    /\ RLe(Zero, box[1]) /\ RLe(box[1], box[3]) /\ RLt(box[3], R(img_shape[2]))
    /\ RLe(Zero, box[2]) /\ RLe(box[2], box[4]) /\ RLt(box[4], R(img_shape[1]))

\* C8, as stated: for points inside the image get_bbox_from_kpts returns
\* the min/max of the points, padded and clipped to the image, with
\* 0 <= x1 <= x2 < width and 0 <= y1 <= y2 < height, and every input point
\* lies inside the returned box.
C8_BoxContainsEveryPoint ==
    Returned("get_bbox_from_kpts") =>
        /\ fout = PaddedClippedBox(fin[2], fin[3], fin[4])
        /\ BoxInImage(fout, fin[3])
        /\ \A k \in DOMAIN fin[2] :
               /\ RLe(fout[1], fin[2][k][1]) /\ RLe(fin[2][k][1], fout[3])
               /\ RLe(fout[2], fin[2][k][2]) /\ RLe(fin[2][k][2], fout[4])

\* C8, amended: the box is the padded min/max clipped to [0, width - 1] and
\* [0, height - 1], so 0 <= x1 <= x2 <= width - 1 and 0 <= y1 <= y2 <=
\* height - 1; every input point is at or after (x1, y1), a point with
\* x <= width - 1 and y <= height - 1 lies inside the box, and a point
\* beyond that edge is less than one pixel outside it.
C8_BoxClippedToLastPixel ==
    Returned("get_bbox_from_kpts") =>
        /\ fout = PaddedClippedBox(fin[2], fin[3], fin[4])
        /\ BoxInImage(fout, fin[3])
        /\ RLe(fout[3], R(fin[3][2] - 1)) /\ RLe(fout[4], R(fin[3][1] - 1))
        /\ \A k \in DOMAIN fin[2] :
               /\ RLe(fout[1], fin[2][k][1]) /\ RLe(fout[2], fin[2][k][2])
               /\ RLe(fin[2][k][1], R(fin[3][2] - 1)) => RLe(fin[2][k][1], fout[3])
               /\ RLe(fin[2][k][2], R(fin[3][1] - 1)) => RLe(fin[2][k][2], fout[4])
               /\ RLt(fin[2][k][1], RAdd(fout[3], One))
               /\ RLt(fin[2][k][2], RAdd(fout[4], One))

\* A box whose right side was clipped to width - 1, left of one of its points.
C8_Witness ==
    /\ Returned("get_bbox_from_kpts")
    /\ fout[3] = R(fin[3][2] - 1)
    /\ \E k \in DOMAIN fin[2] : RLt(fout[3], fin[2][k][1])

\* (w', h'): the under-sized side grown to the image's aspect ratio.
GrownSize(box, img_shape) ==
    LET aspect_ratio == RDiv(R(img_shape[2]), R(img_shape[1]))
        w == RSub(box[3], box[1])
        h == RSub(box[4], box[2])
    IN  <<RMax(w, RMul(aspect_ratio, h)), RMax(h, RDiv(w, aspect_ratio))>>
Midpoint(box) ==
    <<RDiv(RAdd(box[1], box[3]), R(2)), RDiv(RAdd(box[2], box[4]), R(2))>>
ScaleWithFactor(box, img_shape, pixel_std_, factor) ==
    <<RMul(factor, RDiv(GrownSize(box, img_shape)[1], R(pixel_std_))),
      RMul(factor, RDiv(GrownSize(box, img_shape)[2], R(pixel_std_)))>>

\* C9, as stated: for every box with x1 <= x2 and y1 <= y2, xyxy2cs returns
\* the midpoint as center and scale = 1.25 * (w', h') / pixel_std, (w', h')
\* being the box's (width, height) with the under-sized side grown to the
\* image's aspect ratio; the factor 1.25 is applied for every box.
C9_FactorForEveryBox ==
    Returned("xyxy2cs") =>
        /\ fout.center = Midpoint(fin[2])
        /\ fout.scale = ScaleWithFactor(fin[2], fin[3], fin[4], <<5, 4>>)

\* C9, amended: the center is the midpoint; (w', h') has the image's aspect
\* ratio and neither side is shrunk; the scale is 1.25 * (w', h') /
\* pixel_std for every box whose center x is not -1, and (w', h') /
\* pixel_std, without the factor, for a box whose center x is exactly -1.
C9_FactorUnlessCenterIsMinusOne ==
    Returned("xyxy2cs") =>
        LET size == GrownSize(fin[2], fin[3])
        IN  /\ fout.center = Midpoint(fin[2])
            /\ size[1] = RMul(RDiv(R(fin[3][2]), R(fin[3][1])), size[2])
            /\ RLe(RSub(fin[2][3], fin[2][1]), size[1])
            /\ RLe(RSub(fin[2][4], fin[2][2]), size[2])
            /\ fout.scale =
                   ScaleWithFactor(fin[2], fin[3], fin[4],
                       IF Midpoint(fin[2])[1] = R(-1) THEN One ELSE <<5, 4>>)

\* A box with center x = -1 whose height was grown: its scale has no factor.
C9_Witness ==
    /\ Returned("xyxy2cs")
    /\ fout.center[1] = R(-1)
    /\ RLt(RSub(fin[2][4], fin[2][2]), GrownSize(fin[2], fin[3])[2])
    /\ fout.scale[2] = RDiv(GrownSize(fin[2], fin[3])[2], R(fin[4]))

\* The cells <<row, column>> within 3 * sigma of the joint's grid position.
HeatmapWindow(joint) ==
    ((mu_of(joint)[2] - 3 * sigma) .. (mu_of(joint)[2] + 3 * sigma))
        \X ((mu_of(joint)[1] - 3 * sigma) .. (mu_of(joint)[1] + 3 * sigma))
HeatmapGrid == (0 .. (heatmap_size_H - 1)) \X (0 .. (heatmap_size_W - 1))

\* C10, as stated: for every joint of generate_heatmap, a flag of 0 gives
\* weight 0 and an all-zero map; a flag of 1 with a window of radius
\* 3 * sigma that does not intersect the grid gives weight 0 and an all-zero
\* map; otherwise the weight is 1 and exactly the cells of the window inside
\* the grid are written, so a joint of weight 1 has a non-zero cell.
C10_WeightOneHasNonZeroMap ==
    Returned("generate_heatmap") =>
        \A j \in Joints :
            LET cells == HeatmapWindow(fin[2][j]) \cap HeatmapGrid
            IN  IF fin[3][j] = 0 \/ cells = {}
                THEN /\ fout.target_weight[j] = 0
                     /\ DOMAIN fout.target[j] = {}
                ELSE /\ fout.target_weight[j] = 1
                     /\ DOMAIN fout.target[j] = cells

----------------------------------------------------------------------------
(* The rotation to the extracted view inside the hand loop.                *)

\* The pinhole image of a camera-frame point.
ImagePoint(w) == <<RDiv(w[1], w[3]), RDiv(w[2], w[3])>>
\* (source_height - y - 1, x)
RemappedWith(source_height, p) ==
    <<RSub(RSub(R(source_height), p[2]), One), p[1]>>
InExtractedImage(p) ==
    /\ RLe(Zero, p[1]) /\ RLt(p[1], R(undist_img_W))
    /\ RLe(Zero, p[2]) /\ RLt(p[2], R(undist_img_H))
Unoccluded(p, aria_mask) == <<RTrunc(p[2]), RTrunc(p[1])>> \notin aria_mask

\* Under the identity calibration, every present joint of the hand is valid
\* exactly when its image point, remapped with source_height, lies in the
\* extracted image on a non-zero mask cell, and a record holds that
\* remapped point for every valid joint.
RemappedInHandLoop(source_height) ==
    (Returned("hand_projected") /\ fin[3] = <<IntriA, ExtriIdentity>>) =>
        \A i \in Joints :
            ~AnyNone(fin[2][i]) =>
                LET p == RemappedWith(source_height, ImagePoint(fin[2][i]))
                IN  /\ fout.valid_flag[i] <=>
                           (InExtractedImage(p) /\ Unoccluded(p, fin[4]))
                    /\ (fout.valid_flag[i] /\ fout.records # <<>>) =>
                           fout.records[1].joints_2d[i] = p

\* C11, as stated: in the hand loop a point of the raw sensor plane (x, y) is
\* remapped to (1408 - y - 1, x), 1408 being the raw sensor height; so the
\* world point (0,0,5) under the identity calibration lands at (1407, 0),
\* outside the 512 x 512 image, and is invalid.
C11_RemappedWithRawSensorHeight == RemappedInHandLoop(raw_img_H)

\* C11, amended: the hand loop remaps (x, y) to (512 - y - 1, x), the height
\* being that of the extracted image (undist_img_dim); the world point
\* (0,0,5) under the identity calibration lands at (511, 0), inside the
\* image, and is valid unless the mask is 0 there.
C11_RemappedWithExtractedHeight == RemappedInHandLoop(undist_img_dim[1])

\* The wrist at (0,0,5) came out valid and the record holds it at (511, 0).
C11_Witness ==
    /\ Returned("hand_projected")
    /\ fin[2][0] = <<Zero, Zero, R(5)>>
    /\ fout.records # <<>>
    /\ fout.valid_flag[0]
    /\ fout.records[1].joints_2d[0] = <<R(511), Zero>>

----------------------------------------------------------------------------
(* The order of the steps of one_hand_kpts_valid_check.                    *)

\* A joint that is missing (a coordinate absent), whose present coordinate
\* is out of range, under a mask that is 0 at the cell of the zeroed point.
MissingOutOfRangeOccluded(p, aria_mask) ==
    /\ AnyNone(p)
    /\ \/ ~IsNone(p[1]) /\ (RLt(p[1], Zero) \/ RLe(R(undist_img_W), p[1]))
       \/ ~IsNone(p[2]) /\ (RLt(p[2], Zero) \/ RLe(R(undist_img_H), p[2]))
    /\ <<0, 0>> \in aria_mask

\* C12, as stated: a joint that is missing and out of bounds and occluded
\* is reported invalid with the zeroed coordinate (0,0) in the cleaned
\* output.
C12_InvalidJointHoldsZeroedPoint ==
    Returned("one_hand_kpts_valid_check") =>
        \A i \in Joints :
            MissingOutOfRangeOccluded(fin[2][i], fin[3]) =>
                /\ ~fout.valid_flag[i]
                /\ fout.kpts[i] = ZeroRow(2)

\* C12, amended: a missing joint is zeroed before the bounds check (which
\* then finds it in bounds), a missing or out-of-bounds joint is zeroed
\* before the occlusion lookup (which then reads the mask at row 0, column
\* 0), and a joint that is missing, out of range and occluded is reported
\* invalid with an absent point in the cleaned output: the zeroed value
\* (0,0) is only used between the steps.
C12_InvalidJointIsAbsentInOutput ==
    Returned("one_hand_kpts_valid_check") =>
        \A i \in Joints :
            LET p == fin[2][i]
            IN  /\ InputMissing(p) =>
                       /\ kpts_after_miss(fin[2])[i] = ZeroRow(2)
                       /\ ~out_bound_flag(fin[2])[i]
                /\ (InputMissing(p) \/ InputOutOfBounds(p)) =>
                       /\ kpts_after_bound(fin[2])[i] = ZeroRow(2)
                       /\ invis_flag(fin[2], fin[3])[i] <=> (<<0, 0>> \in fin[3])
                /\ InputOutOfBounds(p) => out_bound_flag(fin[2])[i]
                /\ MissingOutOfRangeOccluded(p, fin[3]) =>
                       /\ ~fout.valid_flag[i]
                       /\ fout.kpts[i] = NoneRow(2)

\* A call with a joint that is missing, out of range and occluded, which
\* came out invalid and absent.
C12_Witness ==
    /\ Returned("one_hand_kpts_valid_check")
    /\ \E i \in Joints :
           /\ MissingOutOfRangeOccluded(fin[2][i], fin[3])
           /\ ~fout.valid_flag[i]
           /\ fout.kpts[i] = NoneRow(2)

----------------------------------------------------------------------------
(* The crop transform and its inverse.                                     *)

\* |a - b| <= 1e-3
Within(a, b) ==
    /\ RLe(RSub(a, b), <<1, 1000>>)
    /\ RLe(RSub(b, a), <<1, 1000>>)

\* C13: at rotation 0, for every center, every scale with positive
\* components and every output size, the map of get_affine_transform sends
\* the center to the center of the output image (output_w/2, output_h/2),
\* and a point sent through it and then through the map obtained with
\* inv=1 comes back to where it was, within 1e-3 px.
C13_AffineRoundTrip ==
    (/\ Returned("affine_round_trip")
     /\ RLt(Zero, fin[2][2][1])
     /\ RLt(Zero, fin[2][2][2])) =>
        /\ fout.center[0][1] = RDiv(R(fin[3][1]), R(2))
        /\ fout.center[0][2] = RDiv(R(fin[3][2]), R(2))
        /\ Within(fout.back[0][1], fin[4][1])
        /\ Within(fout.back[0][2], fin[4][2])

\* A non-square crop around an off-grid center whose map moves the point:
\* the point went there and came back.
C13_Witness ==
    /\ Returned("affine_round_trip")
    /\ fin[2] = <<<<R(256), <<511, 2>>>>, <<One, R(2)>>>>
    /\ fin[3] = <<192, 256>>
    /\ xy(fout.there)[0] # fin[4]
    /\ xy(fout.back)[0] = fin[4]

----------------------------------------------------------------------------
(* The shape of what affine_transform returns.                             *)

\* C14: affine_transform applied to N 2D points returns N 2D points: the
\* output has one row per input row and each row has exactly two
\* components, the appended homogeneous coordinate being dropped.
C14_AffineTransformReturnsPairs ==
    Returned("affine_transform") =>
        /\ DOMAIN fout = DOMAIN fin[2]
        /\ \A i \in DOMAIN fout : Len(fout[i]) = 2

----------------------------------------------------------------------------
(* The pixel of the occlusion lookup.                                      *)

\* The point the lookup is made for: (0,0) for a missing or out-of-bounds
\* joint, the joint itself otherwise.
LookedUp(p) == IF InputMissing(p) \/ InputOutOfBounds(p) THEN ZeroRow(2) ELSE p

\* C15, as stated: the occlusion check of a joint at the (possibly zeroed)
\* coordinate (x, y) reads the mask at row round(y), column round(x), the
\* nearest integers, and the joint is occluded exactly when that cell is 0.
C15_LookupAtNearestPixel ==
    Returned("one_hand_kpts_valid_check") =>
        \A i \in Joints :
            LET q == LookedUp(fin[2][i])
            IN  /\ invis_flag(fin[2], fin[3])[i] <=>
                       (<<RRound(q[2]), RRound(q[1])>> \in fin[3])
                /\ (~InputMissing(fin[2][i]) /\ ~InputOutOfBounds(fin[2][i])) =>
                       (fout.valid_flag[i] <=>
                           <<RRound(q[2]), RRound(q[1])>> \notin fin[3])

\* C15, amended: the occlusion check reads the mask at row trunc(y), column
\* trunc(x), the coordinates cut to their integer part (the pixel that
\* holds the point), and the joint is occluded exactly when that cell is 0.
C15_LookupAtTruncatedPixel ==
    Returned("one_hand_kpts_valid_check") =>
        \A i \in Joints :
            LET q == LookedUp(fin[2][i])
            IN  /\ invis_flag(fin[2], fin[3])[i] <=>
                       (<<RTrunc(q[2]), RTrunc(q[1])>> \in fin[3])
                /\ (~InputMissing(fin[2][i]) /\ ~InputOutOfBounds(fin[2][i])) =>
                       (fout.valid_flag[i] <=>
                           <<RTrunc(q[2]), RTrunc(q[1])>> \notin fin[3])

\* A present, in-bounds joint off the pixel grid whose truncated cell is 0
\* and whose nearest cell is not: it came out invalid.
C15_Witness ==
    /\ Returned("one_hand_kpts_valid_check")
    /\ \E i \in Joints :
           /\ ~InputMissing(fin[2][i]) /\ ~InputOutOfBounds(fin[2][i])
           /\ <<RTrunc(fin[2][i][2]), RTrunc(fin[2][i][1])>> \in fin[3]
           /\ <<RRound(fin[2][i][2]), RRound(fin[2][i][1])>> \notin fin[3]
           /\ ~fout.valid_flag[i]

----------------------------------------------------------------------------
(* The boxes and scales of the records of the index.                       *)

\* C16: every record emitted by load_take_raw_data has a bounding box of
\* strictly positive width and height (x2 > x1 and y2 > y1), both
\* components of its scale are strictly positive and equal to each other,
\* and the crop transform __getitem__ computes from it is never the
\* degenerate one.
C16_RecordsHavePositiveSquareScale ==
    /\ \A k \in 1 .. Len(db) :
           /\ RLt(db[k].bbox[1], db[k].bbox[3])
           /\ RLt(db[k].bbox[2], db[k].bbox[4])
           /\ RLt(Zero, db[k].scale[1])
           /\ RLt(Zero, db[k].scale[2])
           /\ db[k].scale[1] = db[k].scale[2]
    /\ out.idx # 0 =>
           \A r \in 1 .. 2 : ~AnyNone(out.data.trans[r])

\* An access to the record of a hand whose joints all sit on one point in
\* the last pixel of the image: the padded box is clipped on two sides.
C16_Witness ==
    /\ out.idx # 0
    /\ db[out.idx].bbox = <<<<983, 2>>, <<983, 2>>, R(undist_img_W - 1),
                            R(undist_img_H - 1)>>
    /\ \A i \in Joints : db[out.idx].valid_flag[i]

====
